---------------------------- MODULE Spec2Model ----------------------------
(***************************************************************************)
(* The statement grammar of the Papyrus parser                             *)
(* (parser/src/ast/statement.rs) as a small-step machine.                  *)
(*                                                                         *)
(* The recursive descent is run on an explicit call stack: one frame per   *)
(* active parse function, one action per straight-line piece of a function *)
(* between two calls.  The token sequence is immutable once produced; the  *)
(* tokenizer hands it over token by token, the first time the cursor       *)
(* reaches a position (action Lex), so that every token sequence of one of *)
(* the InputClasses is parsed.                                             *)
(***************************************************************************)
EXTENDS Integers, Sequences, FiniteSets, TLC

\* Longest token sequence over the whole Alphabet handed to the parser.
MaxLen == 5
\* Longest token sequence of block keywords and identifiers.
MaxBlockLen == 7
\* Longest token sequence of identifiers, literals and assignment operators.
MaxAssignLen == 3

VARIABLES
    input,      \* the class of the input: its alphabet and its longest length
    tokens,     \* the token sequence produced so far (Parser.tokens)
    closed,     \* TRUE once the tokenizer has reached the end of the input
    pos,        \* the cursor: number of tokens consumed (Parser.position)
    stack,      \* the call stack of parse functions, innermost last
    ret         \* the result of the call that returned last

vars == <<input, tokens, closed, pos, stack, ret>>

----------------------------------------------------------------------------
(* Tokens                                                                   *)

Keyword(k) == [tag |-> "Keyword", kind |-> k]
Operator(o) == [tag |-> "Operator", kind |-> o]
Identifier(n) == [tag |-> "Identifier", kind |-> n]
IntegerLiteral(n) == [tag |-> "IntegerLiteral", kind |-> n]
\* peek_token() at the end of the input (Option::None)
NoToken == [tag |-> "None", kind |-> "None"]

\* KeywordKind, restricted to the keywords the statement grammar looks at,
\* plus one base type.
KeywordKind == {"Else", "ElseIf", "EndIf", "EndWhile", "If", "Int", "Return", "While"}

\* Mutant: the alternative for '-=' expects '+=' (a line copied from the
\* alternative above it and not fully edited).
AssignmentOperatorsCopied ==
    << [op |-> "Assignment", kind |-> "Normal"],
       [op |-> "AdditionAssignment", kind |-> "Addition"],
       [op |-> "AdditionAssignment", kind |-> "Subtraction"],
       [op |-> "MultiplicationAssignment", kind |-> "Multiplication"],
       [op |-> "DivisionAssignment", kind |-> "Division"],
       [op |-> "ModulusAssignment", kind |-> "Modulus"] >>

\* The six assignment operators, in the order AssignmentKind::parse tries
\* them, each with the AssignmentKind it maps to.
AssignmentOperators ==
    << [op |-> "Assignment", kind |-> "Normal"],
       [op |-> "AdditionAssignment", kind |-> "Addition"],
       [op |-> "SubtractionAssignment", kind |-> "Subtraction"],
       [op |-> "MultiplicationAssignment", kind |-> "Multiplication"],
       [op |-> "DivisionAssignment", kind |-> "Division"],
       [op |-> "ModulusAssignment", kind |-> "Modulus"] >>

\* Statements of all six kinds.
Alphabet ==
    {Keyword(k) : k \in KeywordKind}
        \cup {Operator("Assignment"), Operator("AdditionAssignment"), Operator("Addition")}
        \cup {Identifier("x"), IntegerLiteral("1")}

\* Nested If and While statements with expression statements in them.
BlockAlphabet ==
    {Keyword(k) : k \in {"Else", "ElseIf", "EndIf", "EndWhile", "If", "While"}}
        \cup {Identifier("x")}

\* Assignments with each of the six operators.
AssignAlphabet ==
    {Operator(o) : o \in {"Assignment", "AdditionAssignment", "SubtractionAssignment",
                          "MultiplicationAssignment", "DivisionAssignment",
                          "ModulusAssignment"}}
        \cup {Identifier("x"), IntegerLiteral("1")}

\* The token sequences the parser is run on: all sequences of up to limit
\* tokens of alphabet, for each of these classes.
InputClasses ==
    { [alphabet |-> Alphabet, limit |-> MaxLen],
      [alphabet |-> BlockAlphabet, limit |-> MaxBlockLen],
      [alphabet |-> AssignAlphabet, limit |-> MaxAssignLen] }

\* Token i (counted from 0) covers the half-open byte range
\* TokStart(i)..TokEnd(i): one byte wide, one byte of white space after it.
TokStart(i) == 2 * i
TokEnd(i) == 2 * i + 1

----------------------------------------------------------------------------
(* AST values                                                               *)

None == [some |-> FALSE, v |-> <<>>]
Some(x) == [some |-> TRUE, v |-> x]

\* The span of the tokens consumed between cursor positions from and to.
SpanOf(from, to) == [start |-> TokStart(from), end |-> TokEnd(to - 1)]

\* Node::new(value, span)
Node(value, span) == [value |-> value, span |-> span]

----------------------------------------------------------------------------
(* Errors                                                                   *)

NoError == [kind |-> "NoError", expected |-> NoToken, at |-> 0, causes |-> <<>>]
ExpectedToken(expected, at) ==
    [kind |-> "ExpectedToken", expected |-> expected, at |-> at, causes |-> <<>>]
UnexpectedEOI(expected, at) ==
    [kind |-> "UnexpectedEOI", expected |-> expected, at |-> at, causes |-> <<>>]
AggregatedErrors(errors, at) ==
    [kind |-> "AggregatedErrors", expected |-> NoToken, at |-> at, causes |-> errors]

\* A ParserResult: ty names the type of the value; fn and from are filled in
\* when the call returns (the function that returned and the cursor position
\* at which it had been called).
Ok(ty, val) ==
    [set |-> TRUE, ok |-> TRUE, ty |-> ty, val |-> val, err |-> NoError,
     fn |-> "", from |-> 0]
Err(ty, err) ==
    [set |-> TRUE, ok |-> FALSE, ty |-> ty, val |-> <<>>, err |-> err,
     fn |-> "", from |-> 0]
NoResult ==
    [set |-> FALSE, ok |-> FALSE, ty |-> "None", val |-> <<>>, err |-> NoError,
     fn |-> "", from |-> 0]

----------------------------------------------------------------------------
(* Parser engine primitives                                                 *)

\* The token at cursor position i, or None past the end of the input.
TokenAt(i) == IF i < Len(tokens) THEN tokens[i + 1] ELSE NoToken

\* Parser::peek_token: the current token, without consuming it.
peek_token == TokenAt(pos)

\* The failure of expecting token tok at the cursor.
Mismatch(tok) ==
    IF peek_token = NoToken THEN UnexpectedEOI(tok, pos) ELSE ExpectedToken(tok, pos)

\* The token at the cursor is known: the tokenizer has produced it, or has
\* reached the end of the input.
Known == pos < Len(tokens) \/ closed

Top == stack[Len(stack)]
Pop == SubSeq(stack, 1, Len(stack) - 1)
SetTop(f) == [stack EXCEPT ![Len(stack)] = f]
Running(fn, pc) == Len(stack) > 0 /\ Known /\ Top.fn = fn /\ Top.pc = pc

\* A new activation of function fn called with the cursor at position at;
\* node says that the call goes through parse_node / with_node.
NewFrame(fn, node, at, locals) ==
    [fn |-> fn, pc |-> "start", start |-> at, node |-> node, l |-> locals]

\* Parser::parse_node / Parser::with_node: a successful result is wrapped in
\* a Node with the span from the entry cursor to the exit cursor.
parse_node(frame, result, cursor) ==
    [result EXCEPT
        !.val = IF frame.node /\ result.ok
                THEN Node(result.val, SpanOf(frame.start, cursor))
                ELSE result.val,
        !.fn = frame.fn,
        !.from = frame.start]

\* Parser::optional_result(f), Parser::optional(f) and
\* Parser::parse_node_optional: the cursor after the attempt that was
\* started at position entry and has left the cursor at position cursor.
optional_result(ok, entry, cursor) == IF ok THEN cursor ELSE entry

\* The running function calls callee and continues at pc when it returns.
Call(pc, locals, callee, cursor) ==
    /\ stack' = Append(SetTop([Top EXCEPT !.pc = pc, !.l = locals]), callee)
    /\ pos' = cursor
    /\ ret' = NoResult
    /\ UNCHANGED <<input, tokens, closed>>

\* The running function continues at pc.
Goto(pc, locals, cursor) ==
    /\ stack' = SetTop([Top EXCEPT !.pc = pc, !.l = locals])
    /\ pos' = cursor
    /\ ret' = NoResult
    /\ UNCHANGED <<input, tokens, closed>>

\* The running function returns result, leaving the cursor at cursor.
Return(result, cursor) ==
    /\ stack' = Pop
    /\ pos' = cursor
    /\ ret' = parse_node(Top, result, cursor)
    /\ UNCHANGED <<input, tokens, closed>>

NoLocals == [none |-> TRUE]

----------------------------------------------------------------------------
(* The tokenizer                                                            *)

\* The cursor has reached a position the tokenizer has not produced yet:
\* it produces one more token, or reports the end of the input.
Lex ==
    /\ Len(stack) > 0
    /\ ~Known
    /\ \E t \in input.alphabet \cup {NoToken} :
          IF t = NoToken \/ Len(tokens) >= input.limit
          THEN closed' = TRUE /\ tokens' = tokens
          ELSE closed' = FALSE /\ tokens' = Append(tokens, t)
    /\ UNCHANGED <<input, pos, stack, ret>>

----------------------------------------------------------------------------
(* Expression, Type and Identifier grammars                                 *)

\* Expression::parse: <atom> ('+' <atom>)*, an atom being an identifier or
\* an integer literal.  A failure leaves the cursor where it was detected.
Expression_parse_atom ==
    /\ Running("Expression::parse", "start")
    /\ IF peek_token.tag \in {"Identifier", "IntegerLiteral"}
       THEN Goto("operator", [toks |-> Append(Top.l.toks, peek_token)], pos + 1)
       ELSE Return(Err("Expression", Mismatch(Identifier("x"))), pos)

Expression_parse_operator ==
    /\ Running("Expression::parse", "operator")
    /\ IF peek_token = Operator("Addition")
       THEN Goto("start", [toks |-> Append(Top.l.toks, peek_token)], pos + 1)
       ELSE Return(Ok("Expression", [toks |-> Top.l.toks]), pos)

ExpressionFrame(at) == NewFrame("Expression::parse", TRUE, at, [toks |-> <<>>])

\* type_with_identifier_parser: a type name (a base type keyword or an
\* identifier), then an identifier.
type_with_identifier_parser_type ==
    /\ Running("type_with_identifier_parser", "start")
    /\ IF peek_token = Keyword("Int") \/ peek_token.tag = "Identifier"
       THEN Goto("identifier",
                 [type_node |-> Node([name |-> peek_token], SpanOf(pos, pos + 1))],
                 pos + 1)
       ELSE Return(Err("TypeWithIdentifier", Mismatch(Keyword("Int"))), pos)

type_with_identifier_parser_identifier ==
    /\ Running("type_with_identifier_parser", "identifier")
    /\ IF peek_token.tag = "Identifier"
       THEN Return(Ok("TypeWithIdentifier",
                      [type_node |-> Top.l.type_node,
                       name |-> Node(peek_token.kind, SpanOf(pos, pos + 1))]),
                   pos + 1)
       ELSE Return(Err("TypeWithIdentifier", Mismatch(Identifier("x"))), pos)

----------------------------------------------------------------------------
(* AssignmentKind::parse                                                    *)

\* choose_result! over alternatives i.. of alts, each of the form
\* optional_result(expect_operator(op).map(kind)): the first operator that
\* matches the token at the cursor is consumed and decides the kind; when
\* none matches, the failures of all alternatives are aggregated.
RECURSIVE choose_assignment_kind(_, _, _, _, _)
choose_assignment_kind(alts, i, entry, cursor, errors) ==
    IF i > Len(alts)
    THEN [result |-> Err("AssignmentKind", AggregatedErrors(errors, entry)),
          cursor |-> entry]
    ELSE IF TokenAt(cursor) = Operator(alts[i].op)
    THEN [result |-> Ok("AssignmentKind", alts[i].kind),
          cursor |-> optional_result(TRUE, cursor, cursor + 1)]
    ELSE choose_assignment_kind(
             alts, i + 1, entry, optional_result(FALSE, cursor, cursor),
             Append(errors,
                    IF TokenAt(cursor) = NoToken
                    THEN UnexpectedEOI(Operator(alts[i].op), cursor)
                    ELSE ExpectedToken(Operator(alts[i].op), cursor)))

AssignmentKind_parse ==
    /\ Running("AssignmentKind::parse", "start")
    /\ LET r == choose_assignment_kind(AssignmentOperators, 1, pos, pos, <<>>)
       IN Return(r.result, r.cursor)

----------------------------------------------------------------------------
(* Statement::parse                                                         *)

\* Mutant: parse_define_statement is called directly, not through
\* optional_result.
StatementAlternativesDefineUnwrapped ==
    << [f |-> "parse_return_statement", wrap |-> "optional_result"],
       [f |-> "parse_if_statement", wrap |-> "optional_result"],
       [f |-> "parse_while_statement", wrap |-> "optional_result"],
       [f |-> "parse_define_statement", wrap |-> "none"],
       [f |-> "parse_assign_statement", wrap |-> "optional_result"],
       [f |-> "parse_expression_statement", wrap |-> "optional_result"] >>

\* Mutant: the bare expression is tried before the assignment.
StatementAlternativesExpressionFirst ==
    << [f |-> "parse_return_statement", wrap |-> "optional_result"],
       [f |-> "parse_if_statement", wrap |-> "optional_result"],
       [f |-> "parse_while_statement", wrap |-> "optional_result"],
       [f |-> "parse_define_statement", wrap |-> "optional_result"],
       [f |-> "parse_expression_statement", wrap |-> "optional_result"],
       [f |-> "parse_assign_statement", wrap |-> "optional_result"] >>

\* Mutant: the bare expression is missing from the alternatives.
StatementAlternativesNoExpression ==
    << [f |-> "parse_return_statement", wrap |-> "optional_result"],
       [f |-> "parse_if_statement", wrap |-> "optional_result"],
       [f |-> "parse_while_statement", wrap |-> "optional_result"],
       [f |-> "parse_define_statement", wrap |-> "optional_result"],
       [f |-> "parse_assign_statement", wrap |-> "optional_result"] >>

\* The six productions in the order choose_result! tries them, each with
\* the combinator it is wrapped in.
StatementAlternatives ==
    << [f |-> "parse_return_statement", wrap |-> "optional_result"],
       [f |-> "parse_if_statement", wrap |-> "optional_result"],
       [f |-> "parse_while_statement", wrap |-> "optional_result"],
       [f |-> "parse_define_statement", wrap |-> "optional_result"],
       [f |-> "parse_assign_statement", wrap |-> "optional_result"],
       [f |-> "parse_expression_statement", wrap |-> "optional_result"] >>

StatementFrame(at) ==
    NewFrame("Statement::parse", TRUE, at, [alt |-> 1, errors |-> <<>>])

\* The local variables a production starts with.
ProductionLocals(f) ==
    CASE f = "parse_if_statement" ->
            [if_path |-> <<>>, other_paths |-> <<>>, else_path |-> None]
      [] f = "parse_define_statement" ->
            [type_node |-> <<>>, name |-> <<>>, entry |-> 0]
      [] f = "parse_assign_statement" -> [l_value |-> <<>>, assignment_kind |-> <<>>]
      [] OTHER -> NoLocals

\* choose_result!: the next alternative is tried at the current cursor.
Statement_parse_attempt ==
    /\ Running("Statement::parse", "start")
    /\ LET f == StatementAlternatives[Top.l.alt].f
       IN Call("attempted", Top.l, NewFrame(f, FALSE, pos, ProductionLocals(f)), pos)

\* choose_result!: the alternative has returned.  Its success is the result;
\* its failure is kept and the next alternative is tried, or, after the
\* last one, the aggregate of all failures is the result and the cursor is
\* put back where Statement::parse started.
Statement_parse_attempted ==
    /\ Running("Statement::parse", "attempted")
    /\ LET alt == StatementAlternatives[Top.l.alt]
           cursor == IF alt.wrap = "optional_result"
                     THEN optional_result(ret.ok, ret.from, pos)
                     ELSE pos
           errors == Append(Top.l.errors, ret.err)
       IN IF ret.ok
          THEN Return(Ok("Statement", ret.val), cursor)
          ELSE IF Top.l.alt < Len(StatementAlternatives)
          THEN Goto("start", [alt |-> Top.l.alt + 1, errors |-> errors], cursor)
          ELSE Return(Err("Statement", AggregatedErrors(errors, Top.start)), Top.start)

\* parse_assign_statement: <expression> <assignment kind> <expression>
parse_assign_statement ==
    /\ Running("parse_assign_statement", "start")
    /\ Call("l_value", Top.l, ExpressionFrame(pos), pos)

parse_assign_statement_l_value ==
    /\ Running("parse_assign_statement", "l_value")
    /\ IF ret.ok
       THEN Call("assignment_kind", [Top.l EXCEPT !.l_value = ret.val],
                 NewFrame("AssignmentKind::parse", TRUE, pos, NoLocals), pos)
       ELSE Return(Err("Statement", ret.err), pos)

parse_assign_statement_assignment_kind ==
    /\ Running("parse_assign_statement", "assignment_kind")
    /\ IF ret.ok
       THEN Call("r_value", [Top.l EXCEPT !.assignment_kind = ret.val],
                 ExpressionFrame(pos), pos)
       ELSE Return(Err("Statement", ret.err), pos)

parse_assign_statement_r_value ==
    /\ Running("parse_assign_statement", "r_value")
    /\ IF ret.ok
       THEN Return(Ok("Statement",
                      [variant |-> "Assignment", lhs |-> Top.l.l_value,
                       kind |-> Top.l.assignment_kind, rhs |-> ret.val]), pos)
       ELSE Return(Err("Statement", ret.err), pos)

\* parse_expression_statement: <expression>
parse_expression_statement ==
    /\ Running("parse_expression_statement", "start")
    /\ Call("expression", Top.l, ExpressionFrame(pos), pos)

parse_expression_statement_expression ==
    /\ Running("parse_expression_statement", "expression")
    /\ IF ret.ok
       THEN Return(Ok("Statement", [variant |-> "Expression", expression |-> ret.val]), pos)
       ELSE Return(Err("Statement", ret.err), pos)

\* parse_return_statement: 'Return' [<expression>]
parse_return_statement ==
    /\ Running("parse_return_statement", "start")
    /\ IF peek_token = Keyword("Return")
       THEN Call("expression", Top.l, ExpressionFrame(pos + 1), pos + 1)
       ELSE Return(Err("Statement", Mismatch(Keyword("Return"))), pos)

\* Mutant: the failure of the expression is dropped without rewinding the
\* cursor (parse_node(..).ok() in place of parse_node_optional).
parse_return_statement_expression_no_rewind ==
    /\ Running("parse_return_statement", "expression")
    /\ Return(Ok("Statement",
                 [variant |-> "Return",
                  expression |-> IF ret.ok THEN Some(ret.val) ELSE None]),
              pos)

\* Mutant: the expression after Return is mandatory (parse_node(..)? in
\* place of parse_node_optional).
parse_return_statement_expression_required ==
    /\ Running("parse_return_statement", "expression")
    /\ IF ret.ok
       THEN Return(Ok("Statement", [variant |-> "Return", expression |-> Some(ret.val)]),
                   pos)
       ELSE Return(Err("Statement", ret.err), pos)

parse_return_statement_expression ==
    /\ Running("parse_return_statement", "expression")
    /\ Return(Ok("Statement",
                 [variant |-> "Return",
                  expression |-> IF ret.ok THEN Some(ret.val) ELSE None]),
              optional_result(ret.ok, ret.from, pos))

\* parse_define_statement: <type> <identifier> ['=' <expression>]
parse_define_statement ==
    /\ Running("parse_define_statement", "start")
    /\ Call("type_with_identifier", Top.l,
            NewFrame("type_with_identifier_parser", FALSE, pos, [type_node |-> <<>>]),
            pos)

VariableDefinition(type_node, name, initial_value) ==
    [variant |-> "VariableDefinition", type_node |-> type_node, name |-> name,
     initial_value |-> initial_value]

parse_define_statement_type_with_identifier ==
    /\ Running("parse_define_statement", "type_with_identifier")
    /\ IF ~ret.ok
       THEN Return(Err("Statement", ret.err), pos)
       ELSE IF peek_token = Operator("Assignment")
       THEN Call("initial_value",
                 [type_node |-> ret.val.type_node, name |-> ret.val.name,
                  entry |-> pos],
                 ExpressionFrame(pos + 1), pos + 1)
       ELSE Return(Ok("Statement",
                      VariableDefinition(ret.val.type_node, ret.val.name, None)),
                   optional_result(FALSE, pos, pos))

\* Mutant: the '=' is consumed outside the optional part, which holds the
\* expression alone.
parse_define_statement_initial_value_after_operator ==
    /\ Running("parse_define_statement", "initial_value")
    /\ Return(Ok("Statement",
                 VariableDefinition(Top.l.type_node, Top.l.name,
                                    IF ret.ok THEN Some(ret.val) ELSE None)),
              optional_result(ret.ok, ret.from, pos))

parse_define_statement_initial_value ==
    /\ Running("parse_define_statement", "initial_value")
    /\ Return(Ok("Statement",
                 VariableDefinition(Top.l.type_node, Top.l.name,
                                    IF ret.ok THEN Some(ret.val) ELSE None)),
              optional_result(ret.ok, Top.l.entry, pos))

----------------------------------------------------------------------------
(* Conditional paths, If and While                                          *)

\* Mutant: with_node is entered before the keyword in front of the path is
\* consumed.
ConditionalPathFrameFromKeyword(at) ==
    NewFrame("parse_conditional_path", TRUE, at - 1,
             [condition |-> <<>>, statements |-> <<>>])

\* with_node(parse_conditional_path), called with the cursor at at.
ConditionalPathFrame(at) ==
    NewFrame("parse_conditional_path", TRUE, at,
             [condition |-> <<>>, statements |-> <<>>])

\* Mutant: the loop stops at the end of the input as well.
PathTerminatorsWithEndOfInput ==
    {Keyword("EndIf"), Keyword("EndWhile"), Keyword("ElseIf"), Keyword("Else"),
     NoToken}

\* Mutant: the arm for EndWhile is missing from the match of the loop.
PathTerminatorsNoEndWhile ==
    {Keyword("EndIf"), Keyword("ElseIf"), Keyword("Else")}

\* The keywords at which the statement loop of a conditional path stops.
PathTerminators ==
    {Keyword("EndIf"), Keyword("EndWhile"), Keyword("ElseIf"), Keyword("Else")}

\* Mutant: the vector is returned as it is, empty or not.
NonEmptyAlwaysSome(vector) == Some(vector)

\* None for an empty vector, Some(vector) otherwise.
NonEmpty(vector) == IF vector = <<>> THEN None ELSE Some(vector)

\* parse_conditional_path: <expression> <statement>*
parse_conditional_path ==
    /\ Running("parse_conditional_path", "start")
    /\ Call("condition", Top.l, ExpressionFrame(pos), pos)

parse_conditional_path_condition ==
    /\ Running("parse_conditional_path", "condition")
    /\ IF ret.ok
       THEN Goto("loop", [condition |-> ret.val, statements |-> <<>>], pos)
       ELSE Return(Err("ConditionalPath", ret.err), pos)

parse_conditional_path_loop ==
    /\ Running("parse_conditional_path", "loop")
    /\ IF peek_token \in PathTerminators
       THEN Return(Ok("ConditionalPath",
                      [condition |-> Top.l.condition,
                       statements |-> NonEmpty(Top.l.statements)]), pos)
       ELSE Call("statement", Top.l, StatementFrame(pos), pos)

\* Mutant: a statement that fails is dropped and the loop goes on (.ok() in
\* place of the ? after parse_node).
parse_conditional_path_statement_ignore_failure ==
    /\ Running("parse_conditional_path", "statement")
    /\ IF ret.ok
       THEN Goto("loop", [Top.l EXCEPT !.statements = Append(@, ret.val)], pos)
       ELSE Goto("loop", Top.l, pos)

\* Mutant: a statement that fails is skipped, the loop going on at the
\* token after the one at which it had started.
parse_conditional_path_statement_skip ==
    /\ Running("parse_conditional_path", "statement")
    /\ IF ret.ok
       THEN Goto("loop", [Top.l EXCEPT !.statements = Append(@, ret.val)], pos)
       ELSE IF peek_token # NoToken
       THEN Goto("loop", Top.l, pos + 1)
       ELSE Return(Err("ConditionalPath", ret.err), pos)

parse_conditional_path_statement ==
    /\ Running("parse_conditional_path", "statement")
    /\ IF ret.ok
       THEN Goto("loop", [Top.l EXCEPT !.statements = Append(@, ret.val)], pos)
       ELSE Return(Err("ConditionalPath", ret.err), pos)

\* Parser::optional_parse_node_until_keyword(keyword): statements are parsed
\* until the next token is the keyword or the input is exhausted.
optional_parse_node_until_keyword_loop ==
    /\ Running("optional_parse_node_until_keyword", "start")
    /\ IF peek_token = NoToken \/ peek_token = Keyword(Top.l.keyword)
       THEN Return(Ok("Statements", NonEmpty(Top.l.results)), pos)
       ELSE Call("node", Top.l, StatementFrame(pos), pos)

optional_parse_node_until_keyword_node ==
    /\ Running("optional_parse_node_until_keyword", "node")
    /\ IF ret.ok
       THEN Goto("start", [Top.l EXCEPT !.results = Append(@, ret.val)], pos)
       ELSE Return(Err("Statements", ret.err), pos)

\* parse_if_statement:
\*   'If' <conditional path> ['ElseIf' <conditional path>]* ['Else' ...] 'EndIf'
parse_if_statement ==
    /\ Running("parse_if_statement", "start")
    /\ IF peek_token = Keyword("If")
       THEN Call("if_path", Top.l, ConditionalPathFrame(pos + 1), pos + 1)
       ELSE Return(Err("Statement", Mismatch(Keyword("If"))), pos)

parse_if_statement_if_path ==
    /\ Running("parse_if_statement", "if_path")
    /\ IF ret.ok
       THEN Goto("loop", [Top.l EXCEPT !.if_path = ret.val], pos)
       ELSE Return(Err("Statement", ret.err), pos)

\* Mutant: Else is followed by a conditional path, as ElseIf is, and the
\* loop goes on.
parse_if_statement_loop_else_as_path ==
    /\ Running("parse_if_statement", "loop")
    /\ IF peek_token = Keyword("EndIf")
       THEN Goto("end", Top.l, pos)
       ELSE IF peek_token = Keyword("ElseIf") \/ peek_token = Keyword("Else")
       THEN Call("other_path", Top.l, ConditionalPathFrame(pos + 1), pos + 1)
       ELSE Goto("end", Top.l, pos)

\* One evaluation of the guard and, if it holds, of the match of the loop.
parse_if_statement_loop ==
    /\ Running("parse_if_statement", "loop")
    /\ IF peek_token = Keyword("EndIf")
       THEN Goto("end", Top.l, pos)
       ELSE IF peek_token = Keyword("ElseIf")
       THEN Call("other_path", Top.l, ConditionalPathFrame(pos + 1), pos + 1)
       ELSE IF peek_token = Keyword("Else")
       THEN Call("else_path", Top.l,
                 NewFrame("optional_parse_node_until_keyword", FALSE, pos + 1,
                          [keyword |-> "EndIf", results |-> <<>>]),
                 pos + 1)
       ELSE Goto("end", Top.l, pos)

\* Mutant: the path of an ElseIf is inserted in front of the paths that
\* are already there.
parse_if_statement_other_path_prepend ==
    /\ Running("parse_if_statement", "other_path")
    /\ IF ret.ok
       THEN Goto("loop", [Top.l EXCEPT !.other_paths = <<ret.val>> \o @], pos)
       ELSE Return(Err("Statement", ret.err), pos)

parse_if_statement_other_path ==
    /\ Running("parse_if_statement", "other_path")
    /\ IF ret.ok
       THEN Goto("loop", [Top.l EXCEPT !.other_paths = Append(@, ret.val)], pos)
       ELSE Return(Err("Statement", ret.err), pos)

parse_if_statement_else_path ==
    /\ Running("parse_if_statement", "else_path")
    /\ IF ret.ok
       THEN Goto("end", [Top.l EXCEPT !.else_path = ret.val], pos)
       ELSE Return(Err("Statement", ret.err), pos)

\* Mutant: the token after the branches is consumed without being compared
\* with EndIf.
parse_if_statement_end_unchecked ==
    /\ Running("parse_if_statement", "end")
    /\ IF peek_token # NoToken
       THEN Return(Ok("Statement",
                      [variant |-> "If", if_path |-> Top.l.if_path,
                       other_paths |-> NonEmpty(Top.l.other_paths),
                       else_path |-> Top.l.else_path]), pos + 1)
       ELSE Return(Err("Statement", Mismatch(Keyword("EndIf"))), pos)

\* Mutant: the end of the input is taken for the closing EndIf.
parse_if_statement_end_at_eoi ==
    /\ Running("parse_if_statement", "end")
    /\ IF peek_token = Keyword("EndIf") \/ peek_token = NoToken
       THEN Return(Ok("Statement",
                      [variant |-> "If", if_path |-> Top.l.if_path,
                       other_paths |-> NonEmpty(Top.l.other_paths),
                       else_path |-> Top.l.else_path]),
                   IF peek_token = NoToken THEN pos ELSE pos + 1)
       ELSE Return(Err("Statement", Mismatch(Keyword("EndIf"))), pos)

\* Mutant: EndWhile closes an If statement as EndIf does.
parse_if_statement_end_at_end_while ==
    /\ Running("parse_if_statement", "end")
    /\ IF peek_token = Keyword("EndIf") \/ peek_token = Keyword("EndWhile")
       THEN Return(Ok("Statement",
                      [variant |-> "If", if_path |-> Top.l.if_path,
                       other_paths |-> NonEmpty(Top.l.other_paths),
                       else_path |-> Top.l.else_path]), pos + 1)
       ELSE Return(Err("Statement", Mismatch(Keyword("EndIf"))), pos)

parse_if_statement_end ==
    /\ Running("parse_if_statement", "end")
    /\ IF peek_token = Keyword("EndIf")
       THEN Return(Ok("Statement",
                      [variant |-> "If", if_path |-> Top.l.if_path,
                       other_paths |-> NonEmpty(Top.l.other_paths),
                       else_path |-> Top.l.else_path]), pos + 1)
       ELSE Return(Err("Statement", Mismatch(Keyword("EndIf"))), pos)

\* parse_while_statement: 'While' <conditional path> 'EndWhile'
parse_while_statement ==
    /\ Running("parse_while_statement", "start")
    /\ IF peek_token = Keyword("While")
       THEN Call("conditional_path", Top.l, ConditionalPathFrame(pos + 1), pos + 1)
       ELSE Return(Err("Statement", Mismatch(Keyword("While"))), pos)

\* Mutant: the keyword at which the path has stopped is consumed, whichever
\* of the four it is.
parse_while_statement_conditional_path_any_terminator ==
    /\ Running("parse_while_statement", "conditional_path")
    /\ IF ~ret.ok
       THEN Return(Err("Statement", ret.err), pos)
       ELSE IF peek_token \in PathTerminators
       THEN Return(Ok("Statement", [variant |-> "While", path |-> ret.val]), pos + 1)
       ELSE Return(Err("Statement", Mismatch(Keyword("EndWhile"))), pos)

parse_while_statement_conditional_path ==
    /\ Running("parse_while_statement", "conditional_path")
    /\ IF ~ret.ok
       THEN Return(Err("Statement", ret.err), pos)
       ELSE IF peek_token = Keyword("EndWhile")
       THEN Return(Ok("Statement", [variant |-> "While", path |-> ret.val]), pos + 1)
       ELSE Return(Err("Statement", Mismatch(Keyword("EndWhile"))), pos)

----------------------------------------------------------------------------
(* The specification                                                        *)

Init ==
    /\ input \in InputClasses
    /\ tokens = <<>>
    /\ closed = FALSE
    /\ pos = 0
    /\ stack = <<StatementFrame(0)>>
    /\ ret = NoResult

Next ==
    \/ Lex
    \/ Expression_parse_atom
    \/ Expression_parse_operator
    \/ type_with_identifier_parser_type
    \/ type_with_identifier_parser_identifier
    \/ AssignmentKind_parse
    \/ Statement_parse_attempt
    \/ Statement_parse_attempted
    \/ parse_assign_statement
    \/ parse_assign_statement_l_value
    \/ parse_assign_statement_assignment_kind
    \/ parse_assign_statement_r_value
    \/ parse_expression_statement
    \/ parse_expression_statement_expression
    \/ parse_return_statement
    \/ parse_return_statement_expression
    \/ parse_define_statement
    \/ parse_define_statement_type_with_identifier
    \/ parse_define_statement_initial_value
    \/ parse_conditional_path
    \/ parse_conditional_path_condition
    \/ parse_conditional_path_loop
    \/ parse_conditional_path_statement
    \/ optional_parse_node_until_keyword_loop
    \/ optional_parse_node_until_keyword_node
    \/ parse_if_statement
    \/ parse_if_statement_if_path
    \/ parse_if_statement_loop
    \/ parse_if_statement_other_path
    \/ parse_if_statement_else_path
    \/ parse_if_statement_end
    \/ parse_while_statement
    \/ parse_while_statement_conditional_path

Spec == Init /\ [][Next]_vars

\* The parser runs on its own thread of control until Statement::parse
\* returns: a step that can be taken is taken.
SpecFair == Spec /\ WF_vars(Next)

----------------------------------------------------------------------------
(* Properties                                                               *)

\* The call that returned last is a call of fn.
Returned(fn) == ret.set /\ ret.fn = fn

IsAtom(t) == t.tag \in {"Identifier", "IntegerLiteral"}
IsTypeName(t) == t = Keyword("Int") \/ t.tag = "Identifier"

\* The cursor position after the expression <atom> ('+' <atom>)* that starts
\* at position i of the token sequence, -1 if there is none.
RECURSIVE ExprEnd(_)
ExprEnd(i) ==
    IF ~IsAtom(TokenAt(i)) THEN -1
    ELSE IF TokenAt(i + 1) = Operator("Addition") THEN ExprEnd(i + 2)
    ELSE i + 1

\* C1: a statement that starts with <type> <identifier> '=' <expression>
\* parses as a VariableDefinition with that initial value, never as an
\* Assignment; a statement that starts with <identifier> '=' <expression>
\* parses as an Assignment of kind Normal; and the Assignment attempt
\* always starts at the cursor position at which Statement::parse started,
\* whatever the VariableDefinition attempt before it has consumed.
C1_Disambiguation ==
    /\ Returned("Statement::parse") =>
          LET f == ret.from
          IN /\ ( /\ IsTypeName(TokenAt(f))
                  /\ TokenAt(f + 1).tag = "Identifier"
                  /\ TokenAt(f + 2) = Operator("Assignment")
                  /\ ExprEnd(f + 3) >= 0 )
                  => /\ ret.ok
                     /\ ret.val.value.variant = "VariableDefinition"
                     /\ ret.val.value.initial_value.some
                     /\ pos = ExprEnd(f + 3)
             /\ ( /\ TokenAt(f).tag = "Identifier"
                  /\ TokenAt(f + 1) = Operator("Assignment")
                  /\ ExprEnd(f + 2) >= 0 )
                  => /\ ret.ok
                     /\ ret.val.value.variant = "Assignment"
                     /\ ret.val.value.kind.value = "Normal"
                     /\ ret.val.value.lhs.span = SpanOf(f, f + 1)
                     /\ pos = ExprEnd(f + 2)
    /\ (Len(stack) > 1 /\ Top.fn = "parse_assign_statement")
          => Top.start = stack[Len(stack) - 1].start

\* "x = 1" has been parsed as an Assignment after the VariableDefinition
\* attempt had consumed x as a type name and failed.
C1_Witness ==
    /\ Returned("Statement::parse")
    /\ ret.ok
    /\ ret.val.value.variant = "Assignment"
    /\ IsTypeName(TokenAt(ret.from))
    /\ pos = ret.from + 3

\* The priority order of the productions.
ProductionOrder ==
    << "parse_return_statement", "parse_if_statement", "parse_while_statement",
       "parse_define_statement", "parse_assign_statement",
       "parse_expression_statement" >>

\* C2: Statement::parse is an ordered choice: the productions are attempted
\* in the order Return, If, While, VariableDefinition, Assignment,
\* Expression, each at the cursor position at which Statement::parse
\* started and only after all earlier ones have failed; the first success
\* is returned at once as the result, no later production being attempted.
C2_OrderedChoice ==
    [][ /\ Running("Statement::parse", "start") =>
              /\ Len(Top.l.errors) = Top.l.alt - 1
              /\ Len(stack') = Len(stack) + 1
              /\ stack'[Len(stack')].fn = ProductionOrder[Top.l.alt]
              /\ stack'[Len(stack')].start = Top.start
              /\ pos' = Top.start
        /\ Running("Statement::parse", "attempted") =>
              /\ ret.fn = ProductionOrder[Top.l.alt]
              /\ ret.from = Top.start
              /\ IF ret.ok
                 THEN /\ stack' = Pop
                      /\ ret'.ok
                      /\ ret'.fn = "Statement::parse"
                      /\ ret'.val.value = ret.val
                      /\ pos' = pos
                 ELSE IF Top.l.alt < Len(ProductionOrder)
                 THEN /\ Len(stack') = Len(stack)
                      /\ stack'[Len(stack)].pc = "start"
                      /\ stack'[Len(stack)].l.alt = Top.l.alt + 1
                 ELSE stack' = Pop /\ ~ret'.ok
        /\ (Len(stack') = Len(stack) + 1 /\ stack'[Len(stack')].fn = "Statement::parse")
              => stack'[Len(stack')].l.alt = 1
      ]_vars

\* The sixth production has succeeded after the five before it have failed.
C2_Witness ==
    /\ Running("Statement::parse", "attempted")
    /\ Top.l.alt = Len(ProductionOrder)
    /\ Len(Top.l.errors) = Len(ProductionOrder) - 1
    /\ ret.ok

\* An optional vector is absent or not empty.
CanonicalOption(o) == o.some => Len(o.v) > 0

RECURSIVE CanonicalStatement(_)
RECURSIVE CanonicalPath(_)

\* Canonical emptiness of the Node<ConditionalPath> p and all below it.
CanonicalPath(p) ==
    /\ CanonicalOption(p.value.statements)
    /\ \A i \in 1..Len(p.value.statements.v) :
          CanonicalStatement(p.value.statements.v[i])

\* Canonical emptiness of the Node<Statement> n and all below it.
CanonicalStatement(n) ==
    CASE n.value.variant = "If" ->
            /\ CanonicalPath(n.value.if_path)
            /\ CanonicalOption(n.value.other_paths)
            /\ \A i \in 1..Len(n.value.other_paths.v) :
                  CanonicalPath(n.value.other_paths.v[i])
            /\ CanonicalOption(n.value.else_path)
            /\ \A i \in 1..Len(n.value.else_path.v) :
                  CanonicalStatement(n.value.else_path.v[i])
      [] n.value.variant = "While" -> CanonicalPath(n.value.path)
      [] OTHER -> TRUE

\* C3: in every statement and every conditional path that a parse returns,
\* statements, other_paths and else_path are absent or non-empty, at every
\* depth of the tree.
C3_CanonicalEmptiness ==
    /\ (Returned("Statement::parse") /\ ret.ok) => CanonicalStatement(ret.val)
    /\ (Returned("parse_conditional_path") /\ ret.ok) => CanonicalPath(ret.val)

\* An If statement with an empty If branch, an empty ElseIf branch and an
\* empty Else body has been returned.
C3_Witness ==
    /\ Returned("Statement::parse")
    /\ ret.ok
    /\ ret.val.value.variant = "If"
    /\ ~ret.val.value.if_path.value.statements.some
    /\ ret.val.value.other_paths.some
    /\ ~ret.val.value.other_paths.v[1].value.statements.some
    /\ ~ret.val.value.else_path.some
    /\ TokenAt(pos - 2) = Keyword("Else")

\* Scan of the tokens at cursor positions i .. end - 1, the inside of an If
\* statement: at the nesting level of that statement (depth 0), no ElseIf
\* and no Else comes after an Else.
RECURSIVE ElseIsLast(_, _, _, _)
ElseIsLast(i, end, depth, seenElse) ==
    IF i >= end THEN TRUE
    ELSE IF TokenAt(i) \in {Keyword("If"), Keyword("While")}
    THEN ElseIsLast(i + 1, end, depth + 1, seenElse)
    ELSE IF TokenAt(i) \in {Keyword("EndIf"), Keyword("EndWhile")}
    THEN ElseIsLast(i + 1, end, depth - 1, seenElse)
    ELSE IF depth = 0 /\ TokenAt(i) \in {Keyword("ElseIf"), Keyword("Else")}
    THEN ~seenElse /\ ElseIsLast(i + 1, end, depth, TokenAt(i) = Keyword("Else"))
    ELSE ElseIsLast(i + 1, end, depth, seenElse)

\* C4: the tokens of a successfully parsed If statement hold no ElseIf and
\* no second Else after an Else at the nesting level of that statement; and
\* the collection of an Else body that comes upon an ElseIf or an Else
\* fails, and the If statement with it.
C4_ElseIsTerminal ==
    /\ (Returned("parse_if_statement") /\ ret.ok)
          => ElseIsLast(ret.from + 1, pos - 1, 0, FALSE)
    /\ ( /\ Returned("optional_parse_node_until_keyword")
         /\ peek_token \in {Keyword("ElseIf"), Keyword("Else")} )
          => ~ret.ok
    /\ ( /\ Returned("parse_if_statement")
         /\ pos > ret.from + 1
         /\ TokenAt(pos - 1) = Keyword("Else")
         /\ peek_token \in {Keyword("ElseIf"), Keyword("Else")} )
          => ~ret.ok

\* An If statement has failed at an ElseIf that follows its Else.
C4_Witness ==
    /\ Returned("parse_if_statement")
    /\ ~ret.ok
    /\ pos > ret.from + 1
    /\ TokenAt(pos - 1) = Keyword("Else")
    /\ peek_token = Keyword("ElseIf")

\* C5: parse_if_statement returns a statement only with EndIf as the last
\* token consumed; when the loop is left, by whichever of its exits, the
\* statement is returned if the next token is EndIf, which is consumed, and
\* the parse fails without consuming anything otherwise.
C5_EndIfMandatory ==
    /\ [](Returned("parse_if_statement") /\ ret.ok
             => /\ pos > ret.from + 1
                /\ TokenAt(ret.from) = Keyword("If")
                /\ TokenAt(pos - 1) = Keyword("EndIf"))
    /\ [][ Running("parse_if_statement", "end") =>
              /\ stack' = Pop
              /\ ret'.fn = "parse_if_statement"
              /\ ret'.ok <=> peek_token = Keyword("EndIf")
              /\ pos' = IF ret'.ok THEN pos + 1 ELSE pos
              /\ ~ret'.ok => ret'.err.expected = Keyword("EndIf")
       ]_vars

\* An If statement has failed for want of EndIf after its Else body, with a
\* token other than EndIf as the next one.
C5_Witness ==
    /\ Returned("parse_if_statement")
    /\ ~ret.ok
    /\ ret.err.expected = Keyword("EndIf")
    /\ ret.err.kind = "ExpectedToken"

\* The error e is, or embeds at some depth, an end-of-input error.
RECURSIVE EmbedsEOI(_)
EmbedsEOI(e) ==
    \/ e.kind = "UnexpectedEOI"
    \/ \E i \in 1..Len(e.causes) : EmbedsEOI(e.causes[i])

\* The cursor position after the EndIf that closes the If statement open at
\* depth depth when the token at position i is read, counting If and EndIf
\* tokens; -1 if the token sequence produced so far ends before it.
RECURSIVE IfEndFrom(_, _)
IfEndFrom(i, depth) ==
    IF i >= Len(tokens) THEN -1
    ELSE IF TokenAt(i) = Keyword("If") THEN IfEndFrom(i + 1, depth + 1)
    ELSE IF TokenAt(i) = Keyword("EndIf")
    THEN IF depth = 1 THEN i + 1 ELSE IfEndFrom(i + 1, depth - 1)
    ELSE IfEndFrom(i + 1, depth)

C7_Rollback ==
    [][ /\ Running("Statement::parse", "start") =>
              /\ pos = Top.start
              /\ pos' = Top.start
              /\ stack'[Len(stack')].start = Top.start
        /\ (Running("Statement::parse", "attempted") /\ ~ret.ok) =>
              /\ ret.from = Top.start
              /\ pos' = ret.from
        /\ (Running("parse_return_statement", "expression") /\ ~ret.ok) =>
              /\ pos' = ret.from
              /\ pos' = Top.start + 1
        /\ (Running("parse_define_statement", "initial_value") /\ ~ret.ok) =>
              /\ pos' = ret.from - 1
              /\ TokenAt(pos') = Operator("Assignment")
        /\ (Running("AssignmentKind::parse", "start") /\ ~ret'.ok) =>
              /\ pos' = pos
              /\ Len(ret'.err.causes) = 6
              /\ \A i \in 1..Len(ret'.err.causes) : ret'.err.causes[i].at = pos
      ]_vars

\* An alternative of Statement::parse has failed after consuming two or
\* more tokens.
C7_Witness ==
    /\ Running("Statement::parse", "attempted")
    /\ ~ret.ok
    /\ pos >= ret.from + 2

\* C8: when the sixth production fails after the five before it, the
\* result of Statement::parse is an aggregate error holding the failures of
\* the six attempts, in the order of the attempts, and the cursor is at the
\* position it had when Statement::parse started.
C8_AggregateFailure ==
    /\ [](Returned("Statement::parse") /\ ~ret.ok
             => /\ ret.err.kind = "AggregatedErrors"
                /\ Len(ret.err.causes) = 6
                /\ \A i \in 1..Len(ret.err.causes) :
                      ret.err.causes[i].kind # "NoError"
                /\ pos = ret.from)
    /\ [][ (Running("Statement::parse", "attempted") /\ ~ret.ok) =>
              IF stack' = Pop
              THEN /\ Top.l.alt = 6
                   /\ ~ret'.ok
                   /\ ret'.err.causes = Append(Top.l.errors, ret.err)
                   /\ pos' = Top.start
              ELSE /\ Top.l.alt < 6
                   /\ stack'[Len(stack)].l.errors = Append(Top.l.errors, ret.err)
       ]_vars

\* Statement::parse has failed inside the body of an If statement, after
\* the If branch has consumed tokens.
C8_Witness ==
    /\ Returned("Statement::parse")
    /\ ~ret.ok
    /\ ret.from > 0
    /\ ret.err.causes[5].at > ret.from

\* The AssignmentKind of each assignment operator.
KindOfOperator ==
    [Assignment |-> "Normal", AdditionAssignment |-> "Addition",
     SubtractionAssignment |-> "Subtraction",
     MultiplicationAssignment |-> "Multiplication",
     DivisionAssignment |-> "Division", ModulusAssignment |-> "Modulus"]

\* The alternatives of AssignmentKind::parse in the order p.
Reordered(p) == [i \in 1..Len(AssignmentOperators) |-> AssignmentOperators[p[i]]]

\* C9: AssignmentKind::parse on one of the six assignment operators
\* returns the kind of that operator and consumes that one token; on any
\* other token, and at the end of the input, it fails and consumes nothing;
\* and trying the six alternatives in any other order gives the same
\* success or failure, the same kind and the same cursor.
C9_AssignmentKind ==
    Returned("AssignmentKind::parse") =>
        LET t == TokenAt(ret.from)
        IN /\ IF t.tag = "Operator" /\ t.kind \in DOMAIN KindOfOperator
              THEN /\ ret.ok
                   /\ ret.val.value = KindOfOperator[t.kind]
                   /\ ret.val.span = SpanOf(ret.from, ret.from + 1)
                   /\ pos = ret.from + 1
              ELSE ~ret.ok /\ pos = ret.from
           /\ \A p \in Permutations(1..Len(AssignmentOperators)) :
                 LET r == choose_assignment_kind(
                              Reordered(p), 1, ret.from, ret.from, <<>>)
                 IN /\ r.result.ok = ret.ok
                    /\ r.cursor = pos
                    /\ ret.ok => r.result.val = ret.val.value

\* '%=', the operator of the last alternative, has been parsed.
C9_Witness ==
    /\ Returned("AssignmentKind::parse")
    /\ ret.ok
    /\ ret.val.value = "Modulus"
    /\ TokenAt(ret.from) = Operator("ModulusAssignment")

\* Span outer contains span inner.
Contains(outer, inner) == outer.start <= inner.start /\ inner.end <= outer.end

\* The nodes of the vector v, each contained in span, follow one another
\* without overlap.
InOrder(span, v) ==
    /\ \A i \in 1..Len(v) : Contains(span, v[i].span)
    /\ \A i \in 1..(Len(v) - 1) : v[i].span.end <= v[i + 1].span.start

\* The end of the last node of the vector v, or end if v is empty.
LastEnd(v, end) == IF Len(v) = 0 THEN end ELSE v[Len(v)].span.end

RECURSIVE SpansOfStatement(_)
RECURSIVE SpansOfPath(_)

\* The spans of the Node<ConditionalPath> p and of all nodes below it: the
\* path starts with its condition and ends with its last statement.
SpansOfPath(p) ==
    /\ p.span.start <= p.span.end
    /\ p.value.condition.span.start <= p.value.condition.span.end
    /\ Contains(p.span, p.value.condition.span)
    /\ InOrder(p.span, p.value.statements.v)
    /\ p.span.start = p.value.condition.span.start
    /\ p.span.end = LastEnd(p.value.statements.v, p.value.condition.span.end)
    /\ \A i \in 1..Len(p.value.statements.v) :
          /\ p.value.condition.span.end <= p.value.statements.v[i].span.start
          /\ SpansOfStatement(p.value.statements.v[i])

\* The spans of the Node<Statement> n and of all nodes below it.
SpansOfStatement(n) ==
    /\ n.span.start <= n.span.end
    /\ CASE n.value.variant = "VariableDefinition" ->
               /\ Contains(n.span, n.value.type_node.span)
               /\ Contains(n.span, n.value.name.span)
               /\ n.value.type_node.span.end <= n.value.name.span.start
               /\ n.span.start = n.value.type_node.span.start
               /\ IF n.value.initial_value.some
                  THEN /\ Contains(n.span, n.value.initial_value.v.span)
                       /\ n.value.name.span.end < n.value.initial_value.v.span.start
                       /\ n.span.end = n.value.initial_value.v.span.end
                  ELSE n.span.end = n.value.name.span.end
         [] n.value.variant = "Return" ->
               IF n.value.expression.some
               THEN /\ Contains(n.span, n.value.expression.v.span)
                    /\ n.span.start < n.value.expression.v.span.start
                    /\ n.span.end = n.value.expression.v.span.end
               ELSE n.span.end = n.span.start + 1
         [] n.value.variant = "Assignment" ->
               /\ Contains(n.span, n.value.lhs.span)
               /\ Contains(n.span, n.value.kind.span)
               /\ Contains(n.span, n.value.rhs.span)
               /\ n.value.lhs.span.end <= n.value.kind.span.start
               /\ n.value.kind.span.end <= n.value.rhs.span.start
               /\ n.span.start = n.value.lhs.span.start
               /\ n.span.end = n.value.rhs.span.end
         [] n.value.variant = "Expression" -> n.span = n.value.expression.span
         [] n.value.variant = "While" ->
               /\ SpansOfPath(n.value.path)
               /\ Contains(n.span, n.value.path.span)
               /\ n.span.start < n.value.path.span.start
               /\ n.value.path.span.end < n.span.end
         [] n.value.variant = "If" ->
               /\ SpansOfPath(n.value.if_path)
               /\ Contains(n.span, n.value.if_path.span)
               /\ n.span.start < n.value.if_path.span.start
               /\ InOrder(n.span, n.value.other_paths.v)
               /\ \A i \in 1..Len(n.value.other_paths.v) :
                     /\ SpansOfPath(n.value.other_paths.v[i])
                     /\ n.value.if_path.span.end < n.value.other_paths.v[i].span.start
               /\ InOrder(n.span, n.value.else_path.v)
               /\ \A i \in 1..Len(n.value.else_path.v) :
                     /\ SpansOfStatement(n.value.else_path.v[i])
                     /\ LastEnd(n.value.other_paths.v, n.value.if_path.span.end)
                           < n.value.else_path.v[i].span.start
               /\ LastEnd(n.value.else_path.v,
                          LastEnd(n.value.other_paths.v, n.value.if_path.span.end))
                     < n.span.end

\* The functions that are called through parse_node or with_node.
NodeParsers ==
    {"Statement::parse", "Expression::parse", "AssignmentKind::parse",
     "parse_conditional_path"}

\* C10: the span of every node that a parse returns runs from the start of
\* the first to the end of the last token consumed for it, with start <=
\* end; and in a returned statement or conditional path, at every depth,
\* each node's span contains the spans of its children, which follow one
\* another in source order, a conditional path starting with its condition
\* (the keyword before it is outside) and ending with its last statement.
C10_SpanContainment ==
    /\ (ret.set /\ ret.ok /\ ret.fn \in NodeParsers) =>
          /\ ret.from < pos
          /\ ret.val.span = [start |-> 2 * ret.from, end |-> 2 * pos - 1]
    /\ (Returned("Statement::parse") /\ ret.ok) => SpansOfStatement(ret.val)
    /\ (Returned("parse_conditional_path") /\ ret.ok) => SpansOfPath(ret.val)

\* An If statement with a statement in its If branch and one in its Else
\* body has been returned.
C10_Witness ==
    /\ Returned("Statement::parse")
    /\ ret.ok
    /\ ret.val.value.variant = "If"
    /\ ret.val.value.if_path.value.statements.some
    /\ ret.val.value.else_path.some

\* C11: parse_return_statement at a Return keyword always succeeds: when an
\* expression starts at the token after the keyword, the result is Return
\* with that expression and the cursor after it; when none does (end of the
\* input, a block keyword, an expression broken off after a '+'), the
\* result is Return without expression and the cursor is just after the
\* keyword, whatever the failed expression had consumed.  At any other
\* token it fails and consumes nothing.
C11_ReturnStatement ==
    Returned("parse_return_statement") =>
        IF TokenAt(ret.from) = Keyword("Return")
        THEN /\ ret.ok
             /\ ret.val.variant = "Return"
             /\ IF ExprEnd(ret.from + 1) = -1
                THEN /\ ~ret.val.expression.some
                     /\ pos = ret.from + 1
                ELSE /\ ret.val.expression.some
                     /\ ret.val.expression.v.span = SpanOf(ret.from + 1, pos)
                     /\ pos = ExprEnd(ret.from + 1)
        ELSE ~ret.ok /\ pos = ret.from

\* A Return without expression has been parsed in the body of an If
\* statement, with EndIf as the token after the keyword.
C11_Witness ==
    /\ Returned("parse_return_statement")
    /\ ret.ok
    /\ ~ret.val.expression.some
    /\ ret.from > 0
    /\ pos = ret.from + 1
    /\ peek_token = Keyword("EndIf")

\* C12: parse_conditional_path returns a path only with EndIf, EndWhile,
\* ElseIf or Else as the next, unconsumed token; and every iteration of its
\* statement loop returns the path without moving the cursor if the next
\* token is one of these four keywords, and calls Statement::parse at the
\* cursor for any other next token, the end of the input included.
C12_PathTerminators ==
    /\ [](Returned("parse_conditional_path") /\ ret.ok
             => peek_token \in {Keyword("EndIf"), Keyword("EndWhile"),
                                Keyword("ElseIf"), Keyword("Else")})
    /\ [][ Running("parse_conditional_path", "loop") =>
              IF peek_token \in {Keyword("EndIf"), Keyword("EndWhile"),
                                 Keyword("ElseIf"), Keyword("Else")}
              THEN /\ stack' = Pop
                   /\ ret'.ok
                   /\ ret'.fn = "parse_conditional_path"
                   /\ pos' = pos
                   /\ TokenAt(pos') = peek_token
              ELSE /\ Len(stack') = Len(stack) + 1
                   /\ stack'[Len(stack')].fn = "Statement::parse"
                   /\ stack'[Len(stack')].start = pos
                   /\ pos' = pos
       ]_vars

\* A conditional path with a statement in it has been returned at EndWhile.
C12_Witness ==
    /\ Returned("parse_conditional_path")
    /\ ret.ok
    /\ ret.val.value.statements.some
    /\ peek_token = Keyword("EndWhile")

\* The cursor positions i .. end - 1, the inside of an If statement, at
\* which an ElseIf or an Else stands at the nesting level of that statement
\* (depth 0), in source order.
RECURSIVE BranchKeywords(_, _, _)
BranchKeywords(i, end, depth) ==
    IF i >= end THEN <<>>
    ELSE IF TokenAt(i) \in {Keyword("If"), Keyword("While")}
    THEN BranchKeywords(i + 1, end, depth + 1)
    ELSE IF TokenAt(i) \in {Keyword("EndIf"), Keyword("EndWhile")}
    THEN BranchKeywords(i + 1, end, depth - 1)
    ELSE IF depth = 0 /\ TokenAt(i) \in {Keyword("ElseIf"), Keyword("Else")}
    THEN <<i>> \o BranchKeywords(i + 1, end, depth)
    ELSE BranchKeywords(i + 1, end, depth)

\* C13: in a successfully parsed If statement other_paths holds one path
\* for each ElseIf that stands at the nesting level of the statement, the
\* k-th path starting right after the k-th ElseIf; there is at most one
\* Else at that level, all the paths end before it and the statements of
\* the Else body start after it.  In every run of parse_if_statement each
\* ElseIf consumed appends one path at the end of other_paths, and once the
\* Else has been consumed the loop is not entered again.
C13_OtherPaths ==
    /\ [](Returned("parse_if_statement") /\ ret.ok =>
             LET ks == BranchKeywords(ret.from + 1, pos - 1, 0)
                 IsElseIf(i) == TokenAt(i) = Keyword("ElseIf")
                 IsElse(i) == TokenAt(i) = Keyword("Else")
                 elseifs == SelectSeq(ks, IsElseIf)
                 elses == SelectSeq(ks, IsElse)
                 paths == ret.val.other_paths.v
                 body == ret.val.else_path.v
             IN /\ Len(paths) = Len(elseifs)
                /\ \A k \in 1..Len(paths) :
                      paths[k].span.start = TokStart(elseifs[k] + 1)
                /\ Len(elses) <= 1
                /\ Len(body) > 0 => Len(elses) = 1
                /\ \A e \in 1..Len(elses) :
                      /\ \A k \in 1..Len(paths) : paths[k].span.end < TokStart(elses[e])
                      /\ \A j \in 1..Len(body) : TokEnd(elses[e]) < body[j].span.start)
    /\ [][ /\ (Running("parse_if_statement", "loop") /\ peek_token = Keyword("ElseIf"))
                 => /\ pos' = pos + 1
                    /\ stack'[Len(stack')].fn = "parse_conditional_path"
                    /\ stack'[Len(stack)].pc = "other_path"
           /\ (Running("parse_if_statement", "other_path") /\ ret.ok)
                 => /\ stack'[Len(stack)].pc = "loop"
                    /\ stack'[Len(stack)].l.other_paths = Append(Top.l.other_paths, ret.val)
                    /\ stack'[Len(stack)].l.else_path = None
           /\ (Running("parse_if_statement", "loop") /\ peek_token = Keyword("Else"))
                 => /\ pos' = pos + 1
                    /\ Top.l.else_path = None
                    /\ stack'[Len(stack)].pc = "else_path"
           /\ Running("parse_if_statement", "else_path")
                 => \/ stack' = Pop
                    \/ /\ stack'[Len(stack)].pc = "end"
                       /\ stack'[Len(stack)].l.other_paths = Top.l.other_paths
           /\ Running("parse_if_statement", "end") => stack' = Pop
       ]_vars

\* "If x ElseIf x ElseIf x EndIf": an If statement with two ElseIf
\* branches has been returned.
C13_Witness ==
    /\ Returned("parse_if_statement")
    /\ ret.ok
    /\ Len(ret.val.other_paths.v) = 2
    /\ ret.val.other_paths.v[1].span.end < ret.val.other_paths.v[2].span.start

\* C14, as stated: whenever the guard of the loop of parse_if_statement
\* holds (the next token is not EndIf), the next token is ElseIf or Else,
\* so that the last arm of the match is never taken.
C14_OtherwiseIsDead ==
    (Running("parse_if_statement", "loop") /\ peek_token # Keyword("EndIf"))
        => peek_token \in {Keyword("ElseIf"), Keyword("Else")}

\* C14, amended: whenever the guard of the loop of parse_if_statement is
\* evaluated, the next token is EndIf, ElseIf, Else or EndWhile; the last
\* arm of the match is taken when, and only when, it is EndWhile, it leaves
\* the loop without consuming anything, and the If statement then fails at
\* the check for EndIf.
C14_OtherwiseOnEndWhile ==
    /\ [](Running("parse_if_statement", "loop")
             => peek_token \in {Keyword("EndIf"), Keyword("ElseIf"), Keyword("Else"),
                                Keyword("EndWhile")})
    /\ [][ /\ ( /\ Running("parse_if_statement", "loop")
                /\ peek_token \notin {Keyword("EndIf"), Keyword("ElseIf"), Keyword("Else")} )
                 => /\ peek_token = Keyword("EndWhile")
                    /\ stack' = SetTop([Top EXCEPT !.pc = "end"])
                    /\ pos' = pos
           /\ ( /\ Running("parse_if_statement", "end")
                /\ peek_token # Keyword("EndIf") )
                 => /\ peek_token \in {Keyword("EndWhile"), NoToken}
                    /\ stack' = Pop
                    /\ ~ret'.ok
                    /\ ret'.err.expected = Keyword("EndIf")
       ]_vars

\* The loop of parse_if_statement has been left through the last arm of
\* its match: the check for EndIf finds EndWhile, no Else having been
\* consumed.
C14_Witness ==
    /\ Running("parse_if_statement", "end")
    /\ peek_token = Keyword("EndWhile")
    /\ TokenAt(pos - 1) # Keyword("Else")
    /\ ~Top.l.else_path.some

\* C15: parse_while_statement returns a statement only for the tokens
\* While, one conditional path, EndWhile, the EndWhile being the last token
\* consumed; when the path has been parsed, the statement is returned if
\* the token at which the path has stopped is EndWhile, which is consumed,
\* and the parse fails, EndWhile expected, if it is EndIf, ElseIf or Else;
\* when the path has failed, the While fails with it.
C15_WhileProduction ==
    /\ [](Returned("parse_while_statement") /\ ret.ok
             => /\ TokenAt(ret.from) = Keyword("While")
                /\ pos > ret.from + 2
                /\ TokenAt(pos - 1) = Keyword("EndWhile")
                /\ ret.val.variant = "While"
                /\ ret.val.path.span = SpanOf(ret.from + 1, pos - 1))
    /\ [][ Running("parse_while_statement", "conditional_path") =>
              /\ stack' = Pop
              /\ ret'.fn = "parse_while_statement"
              /\ ret'.ok <=> (ret.ok /\ peek_token = Keyword("EndWhile"))
              /\ pos' = IF ret'.ok THEN pos + 1 ELSE pos
              /\ ret'.ok => ret'.val.path = ret.val
              /\ ~ret.ok => ret'.err = ret.err
              /\ (ret.ok /\ ~ret'.ok)
                    => /\ peek_token \in {Keyword("EndIf"), Keyword("ElseIf"),
                                          Keyword("Else")}
                       /\ ret'.err = ExpectedToken(Keyword("EndWhile"), pos)
       ]_vars

\* A While statement has failed because its path has stopped at EndIf.
C15_Witness ==
    /\ Returned("parse_while_statement")
    /\ ~ret.ok
    /\ TokenAt(ret.from) = Keyword("While")
    /\ peek_token = Keyword("EndIf")
    /\ ret.err = ExpectedToken(Keyword("EndWhile"), pos)

\* The assignment operator of each AssignmentKind.
OperatorOfKind ==
    [Normal |-> "Assignment", Addition |-> "AdditionAssignment",
     Subtraction |-> "SubtractionAssignment",
     Multiplication |-> "MultiplicationAssignment",
     Division |-> "DivisionAssignment", Modulus |-> "ModulusAssignment"]

RECURSIVE TokensOfStatement(_)
RECURSIVE TokensOfStatements(_)
RECURSIVE TokensOfPaths(_)

\* The tokens of the Node<ConditionalPath> p.
TokensOfPath(p) == p.value.condition.value.toks \o TokensOfStatements(p.value.statements.v)

\* The tokens of the vector v of statements.
TokensOfStatements(v) ==
    IF v = <<>> THEN <<>> ELSE TokensOfStatement(Head(v)) \o TokensOfStatements(Tail(v))

\* The tokens of the vector v of ElseIf branches, each with its keyword.
TokensOfPaths(v) ==
    IF v = <<>> THEN <<>>
    ELSE <<Keyword("ElseIf")>> \o TokensOfPath(Head(v)) \o TokensOfPaths(Tail(v))

\* The tokens that the Node<Statement> n stands for, in source order.  The
\* Else keyword, which an empty Else body leaves no trace of in the tree, is
\* left out.
TokensOfStatement(n) ==
    CASE n.value.variant = "Return" ->
            <<Keyword("Return")>>
                \o (IF n.value.expression.some
                    THEN n.value.expression.v.value.toks ELSE <<>>)
      [] n.value.variant = "VariableDefinition" ->
            <<n.value.type_node.value.name, Identifier(n.value.name.value)>>
                \o (IF n.value.initial_value.some
                    THEN <<Operator("Assignment")>> \o n.value.initial_value.v.value.toks
                    ELSE <<>>)
      [] n.value.variant = "Assignment" ->
            n.value.lhs.value.toks
                \o <<Operator(OperatorOfKind[n.value.kind.value])>>
                \o n.value.rhs.value.toks
      [] n.value.variant = "Expression" -> n.value.expression.value.toks
      [] n.value.variant = "While" ->
            <<Keyword("While")>> \o TokensOfPath(n.value.path) \o <<Keyword("EndWhile")>>
      [] n.value.variant = "If" ->
            <<Keyword("If")>> \o TokensOfPath(n.value.if_path)
                \o TokensOfPaths(n.value.other_paths.v)
                \o TokensOfStatements(n.value.else_path.v)
                \o <<Keyword("EndIf")>>

\* The tokens consumed between cursor positions from and to, Else keywords
\* left out.
ConsumedTokens(from, to) ==
    LET NotElse(t) == t # Keyword("Else")
    IN SelectSeq(SubSeq(tokens, from + 1, to), NotElse)

\* The parse functions through which the failure of a statement in a body
\* travels up to the statement that holds the body, each with the places at
\* which it picks up the result of a call.
BodyCallers ==
    { <<"parse_conditional_path", "statement">>,
      <<"optional_parse_node_until_keyword", "node">>,
      <<"parse_if_statement", "if_path">>,
      <<"parse_if_statement", "other_path">>,
      <<"parse_if_statement", "else_path">>,
      <<"parse_while_statement", "conditional_path">> }

\* C16: a failure of a statement in the body of an If branch, of an ElseIf
\* branch, of an Else or of a While makes the body fail with the same
\* error, and so the If or While production that holds the body; at an If
\* keyword no production but the If production succeeds, and at a While
\* keyword none but the While production, so that Statement::parse fails
\* there as well; and the tree of every statement that is returned stands
\* for all the tokens consumed for it, none skipped and none cut off.
C16_NoPartialResults ==
    /\ [](Returned("Statement::parse") /\ ret.ok
             => TokensOfStatement(ret.val) = ConsumedTokens(ret.from, pos))
    /\ []((Running("Statement::parse", "attempted") /\ ret.ok)
             => /\ TokenAt(Top.start) = Keyword("If") => ret.fn = "parse_if_statement"
                /\ TokenAt(Top.start) = Keyword("While")
                      => ret.fn = "parse_while_statement")
    /\ [][ /\ ( /\ Len(stack) > 0
                /\ Known
                /\ <<Top.fn, Top.pc>> \in BodyCallers
                /\ ~ret.ok )
                 => /\ stack' = Pop
                    /\ ~ret'.ok
                    /\ ret'.fn = Top.fn
                    /\ ret'.err = ret.err
           /\ ( /\ Running("Statement::parse", "attempted")
                /\ ~ret.ok
                /\ ret.fn \in {"parse_if_statement", "parse_while_statement"} )
                 => /\ Len(stack') = Len(stack)
                    /\ stack'[Len(stack)].l.errors = Append(Top.l.errors, ret.err)
                    /\ pos' = Top.start
       ]_vars

\* Statement::parse has failed at an If keyword because a While statement
\* in the body of the If branch has failed.
C16_Witness ==
    /\ Returned("Statement::parse")
    /\ ~ret.ok
    /\ TokenAt(ret.from) = Keyword("If")
    /\ TokenAt(ret.from + 2) = Keyword("While")
    /\ ret.err.causes[2].kind = "AggregatedErrors"
    /\ ret.err.causes[2].at = ret.from + 2

\* C17: Statement::parse returns for every token sequence; and whenever
\* the statement loop of parse_conditional_path, the ElseIf/Else loop of
\* parse_if_statement or the collection of the Else body comes back to the
\* head of the loop, the cursor is beyond the position it had at the head
\* of the loop the time before.
C17_Termination ==
    /\ <>(stack = <<>>)
    /\ [][ /\ ( /\ Running("parse_conditional_path", "statement")
                /\ stack' # Pop )
                 => /\ stack'[Len(stack)].pc = "loop"
                    /\ Top.start <= ret.from
                    /\ pos' > ret.from
           /\ ( /\ Running("optional_parse_node_until_keyword", "node")
                /\ stack' # Pop )
                 => /\ stack'[Len(stack)].pc = "start"
                    /\ Top.start <= ret.from
                    /\ pos' > ret.from
           /\ ( /\ Running("parse_if_statement", "other_path")
                /\ stack' # Pop )
                 => /\ stack'[Len(stack)].pc = "loop"
                    /\ Top.start < ret.from - 1
                    /\ TokenAt(ret.from - 1) = Keyword("ElseIf")
                    /\ pos' > ret.from - 1
           /\ Running("parse_if_statement", "else_path")
                 => \/ stack' = Pop
                    \/ stack'[Len(stack)].pc = "end"
       ]_vars

\* Statement::parse has returned a While statement after three turns of
\* the statement loop of its path.
C17_Witness ==
    /\ stack = <<>>
    /\ Returned("Statement::parse")
    /\ ret.ok
    /\ ret.val.value.variant = "While"
    /\ Len(ret.val.value.path.value.statements.v) = 2

\* The If and While statements that are open after the tokens at cursor
\* positions i .. end - 1, innermost last, given those that are open before
\* them: If and While open a statement, EndIf closes the innermost open
\* statement if that is an If, EndWhile if that is a While.
RECURSIVE OpenBlocks(_, _, _)
OpenBlocks(i, end, open) ==
    IF i >= end THEN open
    ELSE IF TokenAt(i) = Keyword("If")
    THEN OpenBlocks(i + 1, end, Append(open, [kind |-> "If", at |-> i]))
    ELSE IF TokenAt(i) = Keyword("While")
    THEN OpenBlocks(i + 1, end, Append(open, [kind |-> "While", at |-> i]))
    ELSE IF TokenAt(i) \in {Keyword("EndIf"), Keyword("EndWhile")}
    THEN IF /\ open # <<>>
            /\ open[Len(open)].kind =
                  (IF TokenAt(i) = Keyword("EndIf") THEN "If" ELSE "While")
         THEN OpenBlocks(i + 1, end, SubSeq(open, 1, Len(open) - 1))
         ELSE <<[kind |-> "Unmatched", at |-> i]>>
    ELSE OpenBlocks(i + 1, end, open)

\* The If and While productions on the call stack that have consumed their
\* keyword, innermost last.
OpenFrames ==
    LET IsOpen(f) ==
            /\ f.fn \in {"parse_if_statement", "parse_while_statement"}
            /\ f.pc # "start"
        fs == SelectSeq(stack, IsOpen)
    IN [k \in 1..Len(fs) |->
           [kind |-> IF fs[k].fn = "parse_if_statement" THEN "If" ELSE "While",
            at |-> fs[k].start]]

\* C18: but for the time a failure is on its way to the place that rewinds
\* the cursor, the If and While productions on the call stack are the If
\* and While statements that the tokens before the cursor leave open, in
\* the same order; an ElseIf, an Else or an EndIf is consumed by the If
\* production of the innermost open statement only, which is an If, and an
\* EndWhile by the While production of the innermost open statement only,
\* which is a While.
C18_Nesting ==
    /\ []((ret.set => ret.ok) => OpenFrames = OpenBlocks(0, pos, <<>>))
    /\ [][ LET open == OpenBlocks(0, pos, <<>>)
           IN /\ ( /\ pos' = pos + 1
                   /\ peek_token \in {Keyword("ElseIf"), Keyword("Else"),
                                      Keyword("EndIf")} )
                    => /\ Top.fn = "parse_if_statement"
                       /\ open # <<>>
                       /\ open[Len(open)] = [kind |-> "If", at |-> Top.start]
              /\ (pos' = pos + 1 /\ peek_token = Keyword("EndWhile"))
                    => /\ Top.fn = "parse_while_statement"
                       /\ open # <<>>
                       /\ open[Len(open)] = [kind |-> "While", at |-> Top.start]
       ]_vars

\* "If x If x EndIf ElseIf ...": the If statement in the body of an If
\* branch has been returned, and the next token is an ElseIf of the outer
\* If statement.
C18_Witness ==
    /\ Returned("parse_if_statement")
    /\ ret.ok
    /\ ret.from > 0
    /\ OpenBlocks(0, pos, <<>>) = <<[kind |-> "If", at |-> 0]>>
    /\ peek_token = Keyword("ElseIf")

\* C19: when parse_define_statement has started at a type name followed by
\* an identifier and a '=' after which no expression starts, or after which
\* an expression is broken off after a '+', it returns a VariableDefinition
\* of that type and name without initial value, and the cursor is just
\* after the identifier, at the '=', whatever the failed expression had
\* consumed.
C19_FailingInitializer ==
    ( /\ Returned("parse_define_statement")
      /\ IsTypeName(TokenAt(ret.from))
      /\ TokenAt(ret.from + 1).tag = "Identifier"
      /\ TokenAt(ret.from + 2) = Operator("Assignment")
      /\ ExprEnd(ret.from + 3) = -1 )
        => /\ ret.ok
           /\ ret.val.variant = "VariableDefinition"
           /\ ret.val.type_node.value.name = TokenAt(ret.from)
           /\ ret.val.name.value = TokenAt(ret.from + 1).kind
           /\ ~ret.val.initial_value.some
           /\ pos = ret.from + 2
           /\ peek_token = Operator("Assignment")

\* "Int x = x +" and the end of the input: a definition without initial
\* value has been returned after the expression had consumed two tokens.
C19_Witness ==
    /\ Returned("parse_define_statement")
    /\ ret.ok
    /\ ~ret.val.initial_value.some
    /\ pos = ret.from + 2
    /\ peek_token = Operator("Assignment")
    /\ IsAtom(TokenAt(pos + 1))
    /\ TokenAt(pos + 2) = Operator("Addition")

=============================================================================
